---- MODULE Spec2Model ----
(***************************************************************************)
(* Model of the CameraView component (src/components/CameraView.tsx):      *)
(* its five pieces of React state, the two refs, the two mount effects     *)
(* with their asynchronous completions, the four click handlers and the    *)
(* conditional rendering that decides which controls exist.                *)
(***************************************************************************)
EXTENDS Integers, Sequences, FiniteSets, TLC

\* ---------------------------------------------------------------- bounds
MaxReq == 3        \* getUserMedia requests issued in one session (mount + switches)
MaxPhotos == 2     \* counted invocations of onPhotoTaken
MaxCams == 2       \* video inputs reported by enumerateDevices
FrameW == 2        \* width of a video frame, in pixels
FrameH == 1        \* height of a video frame, in pixels
Pixels == {0, 1}

Null == "null"
NoStream == 0
Reqs == 1..MaxReq                      \* request r, when granted, yields stream r
Frames == [1..FrameH -> [1..FrameW -> Pixels]]
EmptyFrame == << >>                    \* what a video element without data shows
NoImage == [mime |-> "null", data |-> << >>]   \* capturedImage === null

VARIABLES
    mounted,             \* the component instance is mounted
    stream,              \* useState stream (NoStream = null)
    capturedImage,       \* useState capturedImage (Null or a data URL)
    facingMode,          \* useState facingMode
    error,               \* useState error (Null or a message)
    hasMultipleCameras,  \* useState hasMultipleCameras
    rError,              \* `error` as the committed render saw it
    rStream,             \* `stream` as the committed render saw it
    rMulti,              \* `hasMultipleCameras` as the committed render saw it
    videoSrc,            \* videoRef.current.srcObject (NoStream: no element or unbound)
    videoReady,          \* the <video> has decoded a frame (videoWidth, videoHeight > 0)
    videoPlaceholder,    \* that frame is the small one a track stopped before its first frame gives
    videoDark,           \* that frame is a full-size black one: the track was stopped before it
    ctxFlipX,            \* the canvas 2d context carries the scale(-1,1) transform
    effStream,           \* `stream` as closed over by the current [facingMode] effect
    enumState,           \* the enumerateDevices promise
    reqState,            \* the getUserMedia promises
    reqMode,             \* facingMode constraint of each request
    stopCount,           \* how many times track.stop() ran on each stream
    photoCalls,          \* number of onPhotoTaken calls
    photoArg,            \* argument of the latest onPhotoTaken call
    closeCalled,         \* onClose has been called
    lastCapture,         \* value produced by the most recent handleTakePhoto
    retaken,             \* value discarded by the most recent handleRetake
    shotFrame,           \* frame the camera delivered at the most recent capture
    shotMode,            \* facingMode at the most recent capture
    shotDrawn,           \* frame the <video> handed to drawImage at the most recent capture
    prevFlip,            \* ctxFlipX as earlier captures had left it before the most recent one
    lastRejection,       \* reason of the most recent getUserMedia rejection
    videoInputs,         \* videoInputs.length seen by the enumerateDevices handler
    switchCount,         \* number of handleSwitchCamera calls
    scen                 \* progress of the run grant(front), capture, confirm

vars == << mounted, stream, capturedImage, facingMode, error, hasMultipleCameras,
           rError, rStream, rMulti, videoSrc, videoReady, videoPlaceholder, videoDark,
           ctxFlipX, effStream, enumState, reqState, reqMode, stopCount,
           photoCalls, photoArg, closeCalled, lastCapture, retaken, shotFrame,
           shotMode, shotDrawn, prevFlip, lastRejection, videoInputs, switchCount,
           scen >>

\* ------------------------------------------------------------ user messages
PermissionDeniedMsg == "Camera permission denied. Please enable it in your browser settings and refresh."
GenericErrorMsg == "Could not access camera. Please make sure it's not being used by another app."
\* Reasons a getUserMedia promise rejects with: two DOMExceptions, and a value
\* that is not an Error instance.
RejectionNames == {"NotAllowedError", "NotReadableError", "NonError"}

\* ------------------------------------------------------------------ render
\* What the document shows is the committed render: the JSX evaluated on the
\* error and the flag that render saw, and on capturedImage, which only click
\* handlers set and which is committed when they return.

\* The state set by promise reactions has been rendered.
rendered == rError = error /\ rStream = stream /\ rMulti = hasMultipleCameras

\* The three-way conditional of the view panel.
View == IF rError # Null THEN "Error"
        ELSE IF capturedImage # NoImage THEN "Captured"
        ELSE "Live"

\* The error panel and the <img> of the captured still.
ErrorPanelShown == mounted /\ rError # Null

ImgShown_IgnoresError == mounted /\ capturedImage # NoImage
ImgShown == mounted /\ rError = Null /\ capturedImage # NoImage

\* The <video> branch of the conditional: the element is in the document and
\* videoRef.current is non-null.
VideoElementExists == mounted /\ rError = Null /\ capturedImage = NoImage

GoBackShown == mounted /\ rError # Null

RetakeShown == mounted /\ rError = Null /\ capturedImage # NoImage

ConfirmShown_IgnoresError == mounted /\ capturedImage # NoImage
ConfirmShown == mounted /\ rError = Null /\ capturedImage # NoImage

ShutterShown_IgnoresError == mounted /\ capturedImage = NoImage
ShutterShown == mounted /\ rError = Null /\ capturedImage = NoImage

SwitchShown_IgnoresFlag == mounted /\ rError = Null /\ capturedImage = NoImage
SwitchShown == mounted /\ rError = Null /\ capturedImage = NoImage /\ rMulti

CloseButtonShown_IgnoresCaptured == mounted /\ rError = Null
CloseButtonShown == mounted /\ capturedImage = NoImage /\ rError = Null

\* onClose can be invoked from the "Go Back" button or the close button.
CloseOffered == GoBackShown \/ CloseButtonShown

\* ------------------------------------------------------------------ helpers
NumIssued == Cardinality({r \in Reqs : reqState[r] # "unissued"})

Toggle(m) == IF m = "user" THEN "environment" ELSE "user"

\* stream.getTracks().forEach(track => track.stop()) under `if (stream)`
StopTracks(sc, s) == IF s = NoStream THEN sc ELSE [sc EXCEPT ![s] = @ + 1]

\* navigator.mediaDevices.getUserMedia(constraints), run by the effect
IssueRequest_NotIssued(rs, next) == rs
IssueRequest(rs, next) == [rs EXCEPT ![next] = "pending"]

\* `if (videoRef.current) videoRef.current.srcObject = stream` in the .then handler
BindOnGrant(exists, old, s) == IF exists THEN s ELSE old

\* Frames of a stream whose tracks are stopped: black at the video's size,
\* or, for some tracks stopped before their first frame, a small black frame.
BlackFrame == [y \in 1..FrameH |-> [x \in 1..FrameW |-> 0]]
PlaceholderFrame == << <<0, 0>>, <<0, 0>> >>

\* The frames the <video> element can hand to drawImage: nothing (videoWidth
\* = videoHeight = 0) without a stream or before the first frame; the black
\* frame it became ready with on a track stopped before that; the camera
\* frame f of a live stream, or black while the element has its size but
\* not yet the picture; for a stream stopped after the first frame, black or,
\* while the stop has not reached the element, still f.
VideoFrame(src, ready, placeholder, dark, stopped, f) ==
    IF src = NoStream \/ ~ready THEN {EmptyFrame}
    ELSE IF placeholder THEN {PlaceholderFrame}
    ELSE IF dark THEN {BlackFrame}
    ELSE IF stopped THEN {BlackFrame, f}
    ELSE {f, BlackFrame}

Reverse(row) == [i \in 1..Len(row) |-> row[Len(row) + 1 - i]]

\* drawImage under the context transform: translate(width,0); scale(-1,1)
\* reverses every row, the identity transform copies the frame.
DrawImage(vf, flipped) ==
    IF flipped THEN [y \in 1..Len(vf) |-> Reverse(vf[y])] ELSE vf

\* `if (facingMode === 'user')`
MirrorDecision(mode) == (mode = "user")

\* The transforms the context can carry after the set-up of a capture:
\* `canvas.width = ...` resets it to the identity, the front camera then adds
\* translate(width, 0); scale(-1, 1).  On a canvas without pixels an engine
\* may leave the identity in place.
ContextTransform_Accumulates(prev, mode, vf) == {IF MirrorDecision(mode) THEN ~prev ELSE prev}
ContextTransform(prev, mode, vf) ==
    IF ~MirrorDecision(mode) THEN {FALSE}
    ELSE IF vf = EmptyFrame THEN {TRUE, FALSE}
    ELSE {TRUE}

\* canvas.toDataURL('image/jpeg', 0.9): a canvas without pixels gives "data:,"
ToDataURL(bitmap) ==
    IF bitmap = << >> THEN [mime |-> "none", data |-> << >>]
    ELSE [mime |-> "image/jpeg", data |-> bitmap]

EmptyDataURL == [mime |-> "none", data |-> << >>]

\* `err instanceof Error`
IsErrorInstance(name) == name # "NonError"

\* the message chosen by err.name
ErrorMessage(name) ==
    IF name = "NotAllowedError" THEN PermissionDeniedMsg ELSE GenericErrorMsg

\* Monitor of the run: first stream granted is the front one, then one
\* capture, then one confirm; the device enumeration, the arrival of the
\* first video frame and the renders do not count.
ScenStep(s, ev) ==
    IF ev \in {"enum", "loaded", "render"} THEN s
    ELSE IF s = 0 /\ ev = "grantFront" THEN 1
    ELSE IF s = 1 /\ ev = "capture" THEN 2
    ELSE IF s = 2 /\ ev = "confirm" THEN 3
    ELSE 4

\* -------------------------------------------------------------------- init
\* State after the first render and both mount effects: enumeration and
\* the first acquisition (facingMode 'user') are in flight.
Init ==
    /\ mounted = TRUE
    /\ stream = NoStream
    /\ capturedImage = NoImage
    /\ facingMode = "user"
    /\ error = Null
    /\ hasMultipleCameras = FALSE
    /\ rError = Null
    /\ rStream = NoStream
    /\ rMulti = FALSE
    /\ videoSrc = NoStream
    /\ videoReady = FALSE
    /\ videoPlaceholder = FALSE
    /\ videoDark = FALSE
    /\ ctxFlipX = FALSE
    /\ effStream = NoStream
    /\ enumState = "pending"
    /\ reqState = [r \in Reqs |-> IF r = 1 THEN "pending" ELSE "unissued"]
    /\ reqMode = [r \in Reqs |-> IF r = 1 THEN "user" ELSE Null]
    /\ stopCount = [r \in Reqs |-> 0]
    /\ photoCalls = 0
    /\ photoArg = NoImage
    /\ closeCalled = FALSE
    /\ lastCapture = NoImage
    /\ retaken = NoImage
    /\ shotFrame = EmptyFrame
    /\ shotMode = Null
    /\ shotDrawn = EmptyFrame
    /\ prevFlip = FALSE
    /\ lastRejection = Null
    /\ videoInputs = 0
    /\ switchCount = 0
    /\ scen = 0

\* ----------------------------------------------------------------- actions
\* Promise reactions only call state setters: the document, and with it
\* videoRef.current and the buttons, is the one of the last committed render
\* (rError, rStream, rMulti) until Render runs.  A click reaches the handler
\* of a button of the committed render, and its own update is committed on
\* return.

\* enumerateDevices().then(...): more than one videoinput sets the flag.
EnumerateResolve(n) ==
    /\ enumState = "pending"
    /\ enumState' = "done"
    /\ videoInputs' = n
    /\ hasMultipleCameras' = IF mounted /\ n > 1 THEN TRUE ELSE hasMultipleCameras
    /\ scen' = ScenStep(scen, "enum")
    /\ UNCHANGED << mounted, stream, capturedImage, facingMode, error, rError,
                    rStream, rMulti, videoSrc, videoReady, videoPlaceholder,
                    videoDark, ctxFlipX, effStream, reqState, reqMode, stopCount,
                    photoCalls, photoArg, closeCalled, lastCapture, retaken,
                    shotFrame, shotMode, shotDrawn, prevFlip, lastRejection,
                    switchCount >>

\* enumerateDevices() rejects: there is no catch handler, nothing changes.
EnumerateReject ==
    /\ enumState = "pending"
    /\ enumState' = "failed"
    /\ scen' = ScenStep(scen, "enum")
    /\ UNCHANGED << mounted, stream, capturedImage, facingMode, error,
                    hasMultipleCameras, rError, rStream, rMulti, videoSrc,
                    videoReady, videoPlaceholder, videoDark, ctxFlipX, effStream,
                    reqState, reqMode, stopCount, photoCalls, photoArg,
                    closeCalled, lastCapture, retaken, shotFrame, shotMode,
                    shotDrawn, prevFlip, lastRejection, videoInputs, switchCount >>

\* getUserMedia(...).then(stream => ...): adopt the granted stream, bind it to
\* the video element the ref holds, clear the error.  State setters of an
\* unmounted component are ignored and its refs are null.
GetUserMediaResolve(r) ==
    /\ reqState[r] = "pending"
    /\ reqState' = [reqState EXCEPT ![r] = "granted"]
    /\ IF mounted
       THEN /\ stream' = r
            /\ videoSrc' = BindOnGrant(VideoElementExists, videoSrc, r)
            /\ videoReady' = IF VideoElementExists THEN FALSE ELSE videoReady
            /\ videoPlaceholder' = IF VideoElementExists THEN FALSE ELSE videoPlaceholder
            /\ videoDark' = IF VideoElementExists THEN FALSE ELSE videoDark
            /\ error' = Null
       ELSE UNCHANGED << stream, videoSrc, videoReady, videoPlaceholder,
                         videoDark, error >>
    /\ scen' = ScenStep(scen, IF mounted /\ reqMode[r] = "user"
                              THEN "grantFront" ELSE "grant")
    /\ UNCHANGED << mounted, capturedImage, facingMode, hasMultipleCameras,
                    rError, rStream, rMulti, ctxFlipX, effStream, enumState,
                    reqMode, stopCount, photoCalls, photoArg, closeCalled,
                    lastCapture, retaken, shotFrame, shotMode, shotDrawn,
                    prevFlip, lastRejection, videoInputs, switchCount >>

\* getUserMedia(...).catch(err => ...): for a reason that is an Error instance
\* set one of the two messages; any other reason is only logged.
GetUserMediaReject(r, name) ==
    /\ reqState[r] = "pending"
    /\ reqState' = [reqState EXCEPT ![r] = "rejected"]
    /\ lastRejection' = name
    /\ IF mounted /\ IsErrorInstance(name)
       THEN error' = ErrorMessage(name)
       ELSE UNCHANGED error
    /\ scen' = ScenStep(scen, "reject")
    /\ UNCHANGED << mounted, stream, capturedImage, facingMode,
                    hasMultipleCameras, rError, rStream, rMulti, videoSrc,
                    videoReady, videoPlaceholder, videoDark, ctxFlipX, effStream,
                    enumState, reqMode, stopCount, photoCalls, photoArg,
                    closeCalled, lastCapture, retaken, shotFrame, shotMode,
                    shotDrawn, prevFlip, videoInputs, switchCount >>

\* The render after state setters ran in promise reactions: the committed
\* state catches up and the view panel follows the conditional.  A <video>
\* that stays in the panel is the same element and keeps its srcObject; one
\* that enters it is new and unbound.
Render ==
    /\ mounted
    /\ ~rendered
    /\ rError' = error
    /\ rStream' = stream
    /\ rMulti' = hasMultipleCameras
    /\ IF VideoElementExists /\ error = Null
       THEN UNCHANGED << videoSrc, videoReady, videoPlaceholder, videoDark >>
       ELSE /\ videoSrc' = NoStream
            /\ videoReady' = FALSE
            /\ videoPlaceholder' = FALSE
            /\ videoDark' = FALSE
    /\ scen' = ScenStep(scen, "render")
    /\ UNCHANGED << mounted, stream, capturedImage, facingMode, error,
                    hasMultipleCameras, ctxFlipX, effStream, enumState, reqState,
                    reqMode, stopCount, photoCalls, photoArg, closeCalled,
                    lastCapture, retaken, shotFrame, shotMode, shotDrawn,
                    prevFlip, lastRejection, videoInputs, switchCount >>

\* Shutter button, pressed while the camera delivers frame f: when the canvas
\* gives a 2d context, size the canvas to the video (which resets the
\* context), mirror for the front camera, draw, encode, store; the captured
\* view then replaces the <video> element by an <img>.  Without a context
\* nothing is stored.
handleTakePhoto(f, hasContext) ==
    /\ ShutterShown
    /\ VideoElementExists
    /\ IF hasContext
       THEN \E vf \in VideoFrame(videoSrc, videoReady, videoPlaceholder, videoDark,
                                 videoSrc # NoStream /\ stopCount[videoSrc] > 0, f) :
            \E flipped \in ContextTransform(ctxFlipX, facingMode, vf) :
                LET dataUrl == ToDataURL(DrawImage(vf, flipped))
                IN  /\ ctxFlipX' = flipped
                    /\ prevFlip' = ctxFlipX
                    /\ capturedImage' = dataUrl
                    /\ lastCapture' = dataUrl
                    /\ videoSrc' = NoStream
                    /\ videoReady' = FALSE
                    /\ videoPlaceholder' = FALSE
                    /\ videoDark' = FALSE
                    /\ shotFrame' = f
                    /\ shotDrawn' = vf
                    /\ shotMode' = facingMode
       ELSE UNCHANGED << ctxFlipX, prevFlip, capturedImage, lastCapture, videoSrc, videoReady, videoPlaceholder, videoDark,
                         shotFrame, shotDrawn, shotMode >>
    /\ scen' = ScenStep(scen, "capture")
    /\ UNCHANGED << mounted, stream, facingMode, error, hasMultipleCameras,
                    rError, rStream, rMulti, effStream, enumState, reqState,
                    reqMode, stopCount, photoCalls, photoArg, closeCalled,
                    retaken, lastRejection, videoInputs, switchCount >>

\* "Use Photo" button.
handleConfirm ==
    /\ ConfirmShown
    /\ photoCalls < MaxPhotos
    /\ capturedImage # NoImage
    /\ photoCalls' = photoCalls + 1
    /\ photoArg' = capturedImage
    /\ scen' = ScenStep(scen, "confirm")
    /\ UNCHANGED << mounted, stream, capturedImage, facingMode, error,
                    hasMultipleCameras, rError, rStream, rMulti, videoSrc,
                    videoReady, videoPlaceholder, videoDark, ctxFlipX, effStream,
                    enumState, reqState, reqMode, stopCount, closeCalled,
                    lastCapture, retaken, shotFrame, shotMode, shotDrawn,
                    prevFlip, lastRejection, videoInputs, switchCount >>

\* "Retake" button: a fresh <video> element is mounted, nothing binds it.
handleRetake ==
    /\ RetakeShown
    /\ capturedImage' = NoImage
    /\ retaken' = capturedImage
    /\ videoSrc' = NoStream
    /\ videoReady' = FALSE
    /\ videoPlaceholder' = FALSE
    /\ videoDark' = FALSE
    /\ scen' = ScenStep(scen, "retake")
    /\ UNCHANGED << mounted, stream, facingMode, error, hasMultipleCameras,
                    rError, rStream, rMulti, ctxFlipX, effStream, enumState,
                    reqState, reqMode, stopCount, photoCalls, photoArg,
                    closeCalled, lastCapture, shotFrame, shotMode, shotDrawn,
                    prevFlip, lastRejection, videoInputs, switchCount >>

\* Switch button: toggle facingMode; the [facingMode] effect re-runs: the old
\* effect's cleanup stops the stream it closed over, the new effect stops the
\* stream of the render it belongs to and issues the next request.  That
\* render either takes in the updates promise reactions left pending (flush)
\* or leaves them to the next Render, and then sees the committed stream.
handleSwitchCamera(flush) ==
    /\ SwitchShown
    /\ NumIssued < MaxReq
    /\ switchCount < MaxReq - 1
    /\ LET next == NumIssued + 1
           mode == Toggle(facingMode)
           seen == IF flush THEN stream ELSE rStream
       IN  /\ facingMode' = mode
           /\ stopCount' = StopTracks(StopTracks(stopCount, effStream), seen)
           /\ effStream' = seen
           /\ reqState' = IssueRequest(reqState, next)
           /\ reqMode' = [reqMode EXCEPT ![next] = mode]
    /\ IF flush
       THEN /\ rError' = error
            /\ rStream' = stream
            /\ rMulti' = hasMultipleCameras
            /\ IF error = Null
               THEN UNCHANGED << videoSrc, videoReady, videoPlaceholder, videoDark >>
               ELSE /\ videoSrc' = NoStream
                    /\ videoReady' = FALSE
                    /\ videoPlaceholder' = FALSE
                    /\ videoDark' = FALSE
       ELSE UNCHANGED << rError, rStream, rMulti, videoSrc, videoReady,
                         videoPlaceholder, videoDark >>
    /\ switchCount' = switchCount + 1
    /\ scen' = ScenStep(scen, "switch")
    /\ UNCHANGED << mounted, stream, capturedImage, error, hasMultipleCameras,
                    ctxFlipX, enumState, photoCalls, photoArg, closeCalled,
                    lastCapture, retaken, shotFrame, shotMode, shotDrawn,
                    prevFlip, lastRejection, videoInputs >>

\* "Go Back" button or close button: both call onClose.
onClose ==
    /\ CloseOffered
    /\ closeCalled' = TRUE
    /\ scen' = ScenStep(scen, "close")
    /\ UNCHANGED << mounted, stream, capturedImage, facingMode, error,
                    hasMultipleCameras, rError, rStream, rMulti, videoSrc,
                    videoReady, videoPlaceholder, videoDark, ctxFlipX, effStream,
                    enumState, reqState, reqMode, stopCount, photoCalls, photoArg,
                    lastCapture, retaken, shotFrame, shotMode, shotDrawn,
                    prevFlip, lastRejection, videoInputs, switchCount >>

\* The bound <video autoPlay> element gets its first frame: videoWidth and
\* videoHeight become nonzero.  On a stream whose track was stopped before
\* that, the frame is black: a small placeholder or one of the full size.
VideoLoaded ==
    /\ mounted
    /\ videoSrc # NoStream
    /\ ~videoReady
    /\ videoReady' = TRUE
    /\ \E small \in (IF stopCount[videoSrc] > 0 THEN BOOLEAN ELSE {FALSE}) :
          /\ videoPlaceholder' = small
          /\ videoDark' = (stopCount[videoSrc] > 0 /\ ~small)
    /\ scen' = ScenStep(scen, "loaded")
    /\ UNCHANGED << mounted, stream, capturedImage, facingMode, error,
                    hasMultipleCameras, rError, rStream, rMulti, videoSrc,
                    ctxFlipX, effStream, enumState, reqState, reqMode, stopCount,
                    photoCalls, photoArg, closeCalled, lastCapture, retaken,
                    shotFrame, shotMode, shotDrawn, prevFlip, lastRejection,
                    videoInputs, switchCount >>

\* The host removes the component: the cleanup of the current [facingMode]
\* effect runs with the stream it closed over; refs become null.
Unmount ==
    /\ mounted
    /\ mounted' = FALSE
    /\ stopCount' = StopTracks(stopCount, effStream)
    /\ videoSrc' = NoStream
    /\ videoReady' = FALSE
    /\ videoPlaceholder' = FALSE
    /\ videoDark' = FALSE
    /\ scen' = ScenStep(scen, "unmount")
    /\ UNCHANGED << stream, capturedImage, facingMode, error, hasMultipleCameras,
                    rError, rStream, rMulti, ctxFlipX, effStream, enumState,
                    reqState, reqMode, photoCalls, photoArg, closeCalled,
                    lastCapture, retaken, shotFrame, shotMode, shotDrawn,
                    prevFlip, lastRejection, videoInputs, switchCount >>

Next ==
    \/ \E n \in 0..MaxCams : EnumerateResolve(n)
    \/ EnumerateReject
    \/ \E r \in Reqs : GetUserMediaResolve(r)
    \/ \E r \in Reqs, name \in RejectionNames : GetUserMediaReject(r, name)
    \/ Render
    \/ \E f \in Frames, hasContext \in BOOLEAN : handleTakePhoto(f, hasContext)
    \/ VideoLoaded
    \/ handleConfirm
    \/ handleRetake
    \/ \E flush \in BOOLEAN : handleSwitchCamera(flush)
    \/ onClose
    \/ Unmount

Spec == Init /\ [][Next]_vars

\* ------------------------------------------------------------------ claims
Granted(r) == reqState[r] = "granted"
GrantStep(r) == reqState[r] = "pending" /\ reqState'[r] = "granted"
CaptureStep == capturedImage = NoImage /\ capturedImage' # NoImage

\* C1: when the component is unmounted, every stream granted so far has had
\* its tracks stopped.
C1_UnmountStopsGranted ==
    [][(mounted /\ ~mounted') =>
          \A r \in Reqs : Granted(r) => stopCount'[r] >= 1]_vars

\* C2: at every facing-mode toggle the held stream is stopped exactly once;
\* no replaced stream stays unstopped and no stream is stopped more than once.
C2_StoppedExactlyOnce ==
    [][/\ \A r \in Reqs : stopCount'[r] <= 1
       /\ (facingMode' # facingMode /\ stream # NoStream) => stopCount'[stream] = 1
       /\ (stream' # stream /\ stream # NoStream) => stopCount'[stream] >= 1]_vars

\* C3: a stream granted after the component was unmounted is stopped.
C3_LateGrantReleased ==
    [][\A r \in Reqs : (~mounted /\ GrantStep(r)) => stopCount'[r] >= 1]_vars

\* C4: a stream granted for a superseded request is stopped and is neither
\* held nor bound; when no request is in flight the held stream is the one
\* requested last.
C4_SupersededGrantDropped ==
    [][/\ \A r \in Reqs : (mounted /\ GrantStep(r) /\ r < NumIssued) =>
              /\ stream' # r
              /\ videoSrc' # r
              /\ stopCount'[r] >= 1
       /\ (mounted' /\ (\A r \in Reqs : reqState'[r] \in {"granted", "unissued"})) =>
              stream' = NumIssued']_vars

\* C5: onPhotoTaken is invoked only by confirm in the Captured view, with
\* exactly the value of the most recent capture, never one that a retake
\* discarded.
C5_ConfirmPassesLatest ==
    [][(photoCalls' # photoCalls \/ photoArg' # photoArg) =>
          /\ mounted
          /\ View = "Captured"
          /\ photoCalls' = photoCalls + 1
          /\ photoArg' = lastCapture]_vars

C5_Witness ==
    /\ photoCalls >= 1
    /\ retaken # NoImage
    /\ photoArg # retaken
    /\ photoArg = lastCapture

\* C6: front stream granted, capture, "Use Photo" once: onPhotoTaken has fired
\* exactly once, with a non-empty JPEG data URL of the frame's size; that call
\* is the signal handed to the host.  The arrival of the first video frame is
\* not one of the run's steps: the capture may come before it.
C6_ScenarioOnePhoto ==
    scen = 3 =>
        /\ photoCalls = 1
        /\ photoArg.mime = "image/jpeg"
        /\ Len(photoArg.data) = FrameH
        /\ \A y \in 1..FrameH : Len(photoArg.data[y]) = FrameW
        /\ photoArg = capturedImage

\* C7: close is not offered, and onClose not invoked, while a still is under
\* review; it is offered in the Live and Error views.
C7_CloseAvailability ==
    [][mounted =>
          /\ View = "Captured" => (~CloseOffered /\ closeCalled' = closeCalled)
          /\ View \in {"Live", "Error"} => CloseOffered]_vars

C7_Witness ==
    /\ mounted
    /\ View = "Captured"
    /\ RetakeShown /\ ConfirmShown
    /\ ~CloseOffered

\* C8: in every state in which an error message is set, shutter, switch,
\* retake and confirm are unavailable, "go back" is the one control, and no
\* step captures, retakes, toggles or hands a photo to the host.
C8_ErrorViewOnlyGoBack ==
    [][(mounted /\ error # Null) =>
          /\ GoBackShown
          /\ ~ShutterShown /\ ~SwitchShown /\ ~RetakeShown /\ ~ConfirmShown
          /\ ~CloseButtonShown
          /\ photoCalls' = photoCalls /\ photoArg' = photoArg
          /\ capturedImage' = capturedImage
          /\ facingMode' = facingMode]_vars

\* C9: capture sets a captured image only when no error is present and a
\* granted stream is bound to the preview (the feed has nonzero dimensions).
C9_CaptureNeedsBoundStream ==
    [][CaptureStep =>
          /\ error = Null
          /\ stream # NoStream
          /\ videoSrc # NoStream
          /\ videoReady]_vars

\* C10: retake followed by capture, with the frame and the facing mode of the
\* original capture, yields the image of the original capture.
C10_RetakeCaptureSameImage ==
    [][(/\ CaptureStep
        /\ retaken = lastCapture /\ retaken # NoImage
        /\ shotFrame' = shotFrame
        /\ shotMode = facingMode) => capturedImage' = lastCapture]_vars

\* C11: at every capture at which the video hands a frame to drawImage,
\* whatever that frame is and whatever transform earlier captures left on the
\* context, the image is the frame with every row reversed when the facing
\* mode is front and the frame unchanged when it is back; and when the capture
\* before drew the same frame under the other facing mode, each image is the
\* other with every row reversed.
C11_FrontIsMirrorOfBack ==
    [][(CaptureStep /\ shotDrawn' # EmptyFrame) =>
          LET vf == shotDrawn'
              img == capturedImage'.data
          IN  /\ capturedImage'.mime = "image/jpeg"
              /\ Len(img) = Len(vf)
              /\ \A y \in 1..Len(vf) :
                    /\ Len(img[y]) = Len(vf[y])
                    /\ \A x \in 1..Len(vf[y]) :
                          img[y][x] = IF facingMode = "user"
                                      THEN vf[y][Len(vf[y]) + 1 - x]
                                      ELSE vf[y][x]
              /\ (shotDrawn = vf /\ shotMode # Null /\ shotMode # facingMode) =>
                    /\ Len(lastCapture.data) = Len(img)
                    /\ \A y \in 1..Len(img) : img[y] = Reverse(lastCapture.data[y])]_vars

\* A mirrored front capture of an asymmetric frame of a running front stream,
\* made on a context on which an earlier front capture had left the mirror
\* transform.
C11_Witness ==
    /\ mounted /\ shotMode = "user" /\ facingMode = "user"
    /\ stream # NoStream /\ reqMode[stream] = "user" /\ stopCount[stream] = 0
    /\ prevFlip /\ ctxFlipX
    /\ retaken.mime = "image/jpeg"
    /\ capturedImage.mime = "image/jpeg"
    /\ shotDrawn = shotFrame
    /\ shotDrawn[1][1] # shotDrawn[1][FrameW]
    /\ capturedImage.data[1] = Reverse(shotDrawn[1])

\* C12: once the Error view is shown it stays shown for as long as the
\* component is mounted: no later step returns the view to Live or Captured.
C12_ErrorIsTerminal ==
    [][(mounted /\ View = "Error" /\ mounted') => View' = "Error"]_vars

RejectStep(r) == reqState[r] = "pending" /\ reqState'[r] = "rejected"

\* C13: every rejection delivered to the mounted component sets the error
\* message: the permission message exactly for NotAllowedError, the generic
\* message for every other reason.
C13_RejectionSetsMessage ==
    [][\A r \in Reqs : (mounted /\ RejectStep(r)) =>
          /\ error' \in {PermissionDeniedMsg, GenericErrorMsg}
          /\ error' = PermissionDeniedMsg <=> lastRejection' = "NotAllowedError"]_vars

Shown(b) == IF b THEN 1 ELSE 0

\* C14: the panel of a mounted component shows exactly one of the error
\* message, the captured still and the live video; error and still are never
\* shown together, and the video is shown iff neither is set.
C14_ExactlyOneView ==
    mounted =>
        /\ Shown(ErrorPanelShown) + Shown(ImgShown) + Shown(VideoElementExists) = 1
        /\ ~(ErrorPanelShown /\ ImgShown)
        /\ VideoElementExists <=> (error = Null /\ capturedImage = NoImage)
        /\ ErrorPanelShown <=> View = "Error"
        /\ ImgShown <=> View = "Captured"

\* C14 as amended: the panel of a mounted component shows exactly one of the
\* error message, the captured still and the live video; error and still are
\* never shown together, and the video is shown iff neither is set in the
\* state the view was rendered from, which is the component's state whenever
\* no update of a promise reaction awaits its render.
C14_RenderedExactlyOneView ==
    mounted =>
        /\ Shown(ErrorPanelShown) + Shown(ImgShown) + Shown(VideoElementExists) = 1
        /\ ~(ErrorPanelShown /\ ImgShown)
        /\ VideoElementExists <=> (rError = Null /\ capturedImage = NoImage)
        /\ rendered => (VideoElementExists <=> (error = Null /\ capturedImage = NoImage))
        /\ ErrorPanelShown <=> View = "Error"
        /\ ImgShown <=> View = "Captured"

C14_Witness ==
    /\ mounted /\ rendered
    /\ error # Null /\ capturedImage # NoImage
    /\ ErrorPanelShown /\ ~ImgShown /\ ~VideoElementExists

RetakeStep == capturedImage # NoImage /\ capturedImage' = NoImage

\* C15: retake in the Captured view discards the still and leaves the held
\* stream, its tracks, the facing mode, the error, the multi-camera flag and
\* the requests as they were, and the live preview shows the held stream.
C15_RetakeReturnsToLivePreview ==
    [][RetakeStep =>
          /\ View = "Captured" /\ View' = "Live"
          /\ stream' = stream /\ stopCount' = stopCount
          /\ facingMode' = facingMode /\ error' = error
          /\ hasMultipleCameras' = hasMultipleCameras
          /\ reqState' = reqState
          /\ videoSrc' = stream']_vars

\* C16: one acquisition request at mount and one per switch-camera action,
\* none at any other step: requests issued = 1 + switches.
C16_OneRequestPerSwitch ==
    [][/\ NumIssued' = 1 + switchCount'
       /\ NumIssued' # NumIssued =>
              /\ NumIssued' = NumIssued + 1
              /\ switchCount' = switchCount + 1
              /\ facingMode' = Toggle(facingMode)
       /\ facingMode' # facingMode => NumIssued' = NumIssued + 1]_vars

C16_Witness ==
    /\ switchCount = 2 /\ NumIssued = 3
    /\ \E r \in Reqs : reqState[r] = "rejected"
    /\ enumState = "done"
    /\ retaken # NoImage
    /\ photoCalls >= 1

\* C17: the multi-camera flag is false until the enumeration resolves with
\* more than one video input and never returns to false; while it is false
\* the facing mode is front and the mount request is the only one; the
\* enumeration's completion never touches the error.
C17_MultiCameraFlag ==
    [][/\ enumState = "pending" => ~hasMultipleCameras
       /\ hasMultipleCameras => hasMultipleCameras'
       /\ (~hasMultipleCameras /\ hasMultipleCameras') =>
              /\ enumState = "pending" /\ enumState' = "done"
              /\ videoInputs' > 1
       /\ ~hasMultipleCameras =>
              /\ facingMode = "user" /\ facingMode' = "user"
              /\ NumIssued = 1 /\ NumIssued' = 1
       /\ enumState' # enumState => error' = error]_vars

C17_Witness ==
    /\ enumState = "failed"
    /\ ~hasMultipleCameras
    /\ reqState[1] = "granted"
    /\ capturedImage # NoImage /\ retaken # NoImage
    /\ error = Null

\* C18: at most one granted stream has tracks that were never stopped.
C18_AtMostOneRunningStream ==
    Cardinality({r \in Reqs : Granted(r) /\ stopCount[r] = 0}) <= 1

\* C19: the error message and the captured image are never both set.
C19_ErrorAndCaptureExclusive ==
    ~(error # Null /\ capturedImage # NoImage)

\* C20: capture mirrors exactly when the stream bound to the preview was
\* acquired with facing mode 'user'.
C20_MirrorMatchesBoundStream ==
    [][(CaptureStep /\ videoSrc # NoStream /\ videoReady) =>
          (ctxFlipX' <=> reqMode[videoSrc] = "user")]_vars
====
